---- MODULE Spec2Model ----
(***************************************************************************)
(* Model of utils/normalizer.py: the four column-wise normalisers          *)
(* zero_one_normalize, negativeone_one_normalize, standardize and          *)
(* robust_standardize.  A DataFrame is a record of its column labels, its  *)
(* row index labels, the dtype of each column and the cells of each        *)
(* column (all by column position, as a frame may repeat a column label).  *)
(*                                                                         *)
(* A cell is a triple <<kind, a, b>>:                                      *)
(*   <<"int", v, 1>>     an integer v of the input                         *)
(*   <<"str", c, i>>     a string; (c, i) identifies its text              *)
(*   <<"float", a, b>>   the float a / b            (b > 0)                *)
(*   <<"zscore", a, b>>  the float a / sqrt(b)      (b > 0)                *)
(*   <<"nan", 0, 0>>     a missing value                                   *)
(***************************************************************************)
EXTENDS Integers, Sequences, FiniteSets, TLC

\* ------------------------------------------------------------- bounds
MaxCols == 3
MaxList == 2
MaxRows == 3
MaxK == 2

\* ------------------------------------------------------------ helpers
Range(s) == {s[k] : k \in 1..Len(s)}

InSeq(x, s) == \E k \in 1..Len(s) : s[k] = x

IsDistinct(s) == \A i, j \in 1..Len(s) : i # j => s[i] # s[j]

Pos(s, x) == CHOOSE k \in 1..Len(s) : s[k] = x

SeqsUpTo(S, n) == UNION {[1..k -> S] : k \in 0..n}

RECURSIVE SumSeq(_)
SumSeq(s) == IF s = <<>> THEN 0 ELSE Head(s) + SumSeq(Tail(s))

MinOf(S) == CHOOSE m \in S : \A y \in S : m <= y

MaxOf(S) == CHOOSE m \in S : \A y \in S : m >= y

\* the k-th smallest element (1-based) of the integer sequence x
Kth(x, k) ==
    CHOOSE v \in Range(x) :
        /\ Cardinality({i \in 1..Len(x) : x[i] < v}) < k
        /\ k <= Cardinality({i \in 1..Len(x) : x[i] <= v})

NaN == <<"nan", 0, 0>>

IntCell(v) == <<"int", v, 1>>

\* ---------------------------------------------------------- DataFrame
Ops == {"zero_one_normalize", "negativeone_one_normalize",
        "standardize", "robust_standardize"}

NRows(df) == Len(df.idx)

RangeIndex(n) == [i \in 1..n |-> i - 1]

\* list(df): the column labels in order
ListCols(df) == df.cols

\* df[names]: the columns named, in the order named (a repeated name gives a
\* repeated column); the row index is kept.  Defined when HasColumns.
HasColumns(df, names) == \A k \in 1..Len(names) : InSeq(names[k], df.cols)

Take(df, names) ==
    [cols  |-> names,
     idx   |-> df.idx,
     dtype |-> [k \in 1..Len(names) |-> df.dtype[Pos(df.cols, names[k])]],
     val   |-> [k \in 1..Len(names) |-> df.val[Pos(df.cols, names[k])]]]

\* df.select_dtypes(include=np.number) / (exclude=np.number)
SelectDtypes(df, wantNumber) ==
    LET keep == {k \in 1..Len(df.cols) : (df.dtype[k] = "number") = wantNumber}
        F[k \in 0..Len(df.cols)] ==
            IF k = 0 THEN <<>>
            ELSE IF k \in keep THEN Append(F[k - 1], df.cols[k]) ELSE F[k - 1]
    IN  Take(df, F[Len(df.cols)])

\* df.reset_index(): a NEW frame with the default index; df itself is unchanged
ResetIndex(df) == [df EXCEPT !.idx = RangeIndex(NRows(df))]

\* left.join(right): a left join on the index labels.  Every row of left is
\* kept, in order; a right column holds, in the row labelled x, the cell of
\* right's row labelled x, or NaN when right has no such row.  right's index
\* is unique here (a RangeIndex).
JoinRightFirst(left, right) ==
    [cols  |-> right.cols \o left.cols,
     idx   |-> left.idx,
     dtype |-> right.dtype \o left.dtype,
     val   |-> [k \in 1..Len(right.cols) |->
                   [i \in 1..NRows(left) |->
                       IF InSeq(left.idx[i], right.idx)
                       THEN right.val[k][Pos(right.idx, left.idx[i])]
                       ELSE NaN]]
               \o left.val]

JoinInner(left, right) ==
    LET keep == {i \in 1..NRows(left) : InSeq(left.idx[i], right.idx)}
        F[i \in 0..NRows(left)] ==
            IF i = 0 THEN <<>>
            ELSE IF i \in keep THEN Append(F[i - 1], i) ELSE F[i - 1]
        rows == F[NRows(left)]
    IN  [cols  |-> left.cols \o right.cols,
         idx   |-> [r \in 1..Len(rows) |-> left.idx[rows[r]]],
         dtype |-> left.dtype \o right.dtype,
         val   |-> [k \in 1..Len(left.cols) |->
                       [r \in 1..Len(rows) |-> left.val[k][rows[r]]]]
                   \o [k \in 1..Len(right.cols) |->
                       [r \in 1..Len(rows) |->
                           right.val[k][Pos(right.idx, left.idx[rows[r]])]]]]

Join(left, right) ==
    [cols  |-> left.cols \o right.cols,
     idx   |-> left.idx,
     dtype |-> left.dtype \o right.dtype,
     val   |-> left.val
               \o [k \in 1..Len(right.cols) |->
                     [i \in 1..NRows(left) |->
                         IF InSeq(left.idx[i], right.idx)
                         THEN right.val[k][Pos(right.idx, left.idx[i])]
                         ELSE NaN]]]

\* ------------------------------------------------------------ scalers
\* the integers of a numeric column
Ints(col) == [i \in 1..Len(col) |-> col[i][2]]

\* MinMaxScaler(feature_range=(lo, hi)).fit_transform on one column:
\* lo + (hi - lo) * (x - min) / (max - min); a zero range scales by 1
MinMaxNoShift(x, lo, hi) ==
    LET mx == MaxOf(Range(x))
    IN  [i \in 1..Len(x) |-> <<"float", lo * mx + (hi - lo) * x[i], IF mx = 0 THEN 1 ELSE mx>>]

MinMaxColumn(x, lo, hi) ==
    LET mn == MinOf(Range(x))
        mx == MaxOf(Range(x))
        rg == IF mx = mn THEN 1 ELSE mx - mn
    IN  [i \in 1..Len(x) |-> <<"float", lo * rg + (hi - lo) * (x[i] - mn), rg>>]

\* StandardScaler().fit_transform on one column: (x - mean) / std with the
\* population std; with n rows, sum S and sum of squares Q this is
\* (n*x - S) / sqrt(n*Q - S*S); a zero std scales by 1
StandardColumn(x) ==
    LET n == Len(x)
        S == SumSeq(x)
        Q == SumSeq([i \in 1..n |-> x[i] * x[i]])
        d == n * Q - S * S
    IN  [i \in 1..n |-> IF d = 0 THEN <<"float", n * x[i] - S, n>>
                        ELSE <<"zscore", n * x[i] - S, d>>]

\* four times the q-th quartile of x (numpy's linear interpolation)
Quartile4(x, q) ==
    LET n == Len(x)
        k == ((n - 1) * q) \div 4
        r == ((n - 1) * q) % 4
    IN  (4 - r) * Kth(x, k + 1) + r * Kth(x, IF k + 2 > n THEN n ELSE k + 2)

\* RobustScaler().fit_transform on one column: (x - median) / (Q3 - Q1);
\* a zero interquartile range scales by 1
RobustColumn(x) ==
    LET m4 == Quartile4(x, 2)
        i4 == Quartile4(x, 3) - Quartile4(x, 1)
    IN  [i \in 1..Len(x) |-> <<"float", 4 * x[i] - m4, IF i4 = 0 THEN 4 ELSE i4>>]

ScaleColumn(op, x) ==
    CASE op = "zero_one_normalize"        -> MinMaxColumn(x, 0, 1)
      [] op = "negativeone_one_normalize" -> MinMaxColumn(x, -1, 1)
      [] op = "standardize"               -> StandardColumn(x)
      [] op = "robust_standardize"        -> RobustColumn(x)

\* scaler.fit_transform(df_numeric) validates its input first: a frame with
\* no column or no row is refused with a ValueError
ScalerAcceptsAll(df_numeric) == TRUE

ScalerAccepts(df_numeric) == Len(df_numeric.cols) > 0 /\ NRows(df_numeric) > 0

FitTransform(op, df_numeric) ==
    [k \in 1..Len(df_numeric.cols) |-> ScaleColumn(op, Ints(df_numeric.val[k]))]

\* pd.DataFrame(res_ndarray, columns=list(df_numeric), dtype=float): a new
\* frame, so with the default index 0..n-1
NewFrame(res_ndarray, columns, n) ==
    [cols  |-> columns,
     idx   |-> RangeIndex(n),
     dtype |-> [k \in 1..Len(columns) |-> "number"],
     val   |-> res_ndarray]

\* ------------------------------------------------- the function body
\* line 36: the columns of df not named in excluded_colnames
NumericColnamesAll(df, excluded_colnames) == ListCols(df)

NumericColnames(df, excluded_colnames) ==
    SelectSeq(ListCols(df), LAMBDA c : ~InSeq(c, excluded_colnames))

\* line 38
DfNumeric(df, numeric_colnames) == SelectDtypes(Take(df, numeric_colnames), TRUE)

\* line 39: excluded_colnames.extend(...), in place
ExtendNothing(df, numeric_colnames, excluded_colnames) == excluded_colnames

ExtendFront(df, numeric_colnames, excluded_colnames) ==
    ListCols(SelectDtypes(Take(df, numeric_colnames), FALSE)) \o excluded_colnames

Extended(df, numeric_colnames, excluded_colnames) ==
    excluded_colnames \o ListCols(SelectDtypes(Take(df, numeric_colnames), FALSE))

\* lines 44-45
Transformed(op, df_numeric) ==
    NewFrame(FitTransform(op, df_numeric), ListCols(df_numeric), NRows(df_numeric))

NoFrame == [cols |-> <<>>, idx |-> <<>>, dtype |-> <<>>, val |-> <<>>]

\* One whole call, run alone, on df with the list holding `entry`:
\* its status, the list afterwards, and the frame returned.
Run(op, df, entry) ==
    LET numeric_colnames == NumericColnames(df, entry)
        df_numeric == DfNumeric(df, numeric_colnames)
        final == Extended(df, numeric_colnames, entry)
    IN  IF ~HasColumns(df, final)                                \* line 40
        THEN [status |-> "KeyError", final |-> final, numeric |-> ListCols(df_numeric),
              scaled |-> NoFrame, out |-> NoFrame]
        ELSE IF ~ScalerAccepts(df_numeric)                       \* line 44
        THEN [status |-> "ValueError", final |-> final, numeric |-> ListCols(df_numeric),
              scaled |-> NoFrame, out |-> NoFrame]
        ELSE LET df_ids_labels == Take(df, final)
                 scaled == Transformed(op, df_numeric)
                 \* lines 48-49: both results are dropped
                 dropped == <<ResetIndex(df_ids_labels), ResetIndex(scaled)>>
             IN  [status |-> "ok", final |-> final, numeric |-> ListCols(df_numeric),
                  scaled |-> scaled,
                  out |-> Join(df_ids_labels, scaled)]           \* line 52

\* ------------------------------------------------------------- inputs
ColNames == {"id", "ts", "feat1", "label"}

NumericNames == {"id", "feat1", "feat2"}

\* a frame of the caller: integer columns and string columns
MkFrame(cols, idx, ints) ==
    [cols  |-> cols,
     idx   |-> idx,
     dtype |-> [k \in 1..Len(cols) |->
                   IF cols[k] \in NumericNames THEN "number" ELSE "object"],
     val   |-> [k \in 1..Len(cols) |->
                   [i \in 1..Len(idx) |->
                       IF cols[k] \in NumericNames THEN IntCell(ints[k][i])
                       ELSE <<"str", cols[k], i>>]]]

\* the integers 0, 5, 20, 45, ... rotated by the column's position
BaseInts(cols, n) ==
    [k \in 1..Len(cols) |->
        [i \in 1..n |-> LET j == (i + k - 2) % n IN 5 * j * j]]

Layouts == {c \in SeqsUpTo(ColNames, MaxCols) : c # <<>> /\ IsDistinct(c)}

Lists == SeqsUpTo(ColNames, MaxList)

\* frames of two rows with the default index, one per layout
Datasets == {MkFrame(c, RangeIndex(2), BaseInts(c, 2)) : c \in Layouts}

\* row indexes: the default one, a shifted one, a permuted one (reversed), a
\* filtered one (every other row of a longer frame) and one repeating a label
Indexes ==
    UNION {{RangeIndex(n),
            [i \in 1..n |-> i],
            [i \in 1..n |-> n - i],
            [i \in 1..n |-> 2 * (i - 1)],
            [i \in 1..n |-> 0]} : n \in 1..MaxRows}

RowLayouts == {c \in Layouts : Len(c) <= 3}

RowLists == {l \in Lists : Len(l) <= 1}

RowDatasets == {MkFrame(c, x, BaseInts(c, Len(x))) : c \in RowLayouts, x \in Indexes}

\* the frame of the scenario, [id, ts, feat1, feat2], with feat1 drawn from
\* the vectors over {0, 5, 10, ...}
Vectors == UNION {[1..n -> {5 * k : k \in 0..MaxK}] : n \in 1..MaxRows}

ScaleColumns == <<"id", "ts", "feat1", "feat2">>

ScaleFrame(v, x) ==
    MkFrame(ScaleColumns, x,
            <<[i \in 1..Len(v) |-> i], [i \in 1..Len(v) |-> 0], v,
              [i \in 1..Len(v) |-> 2 * v[i] + 10]>>)

ScaleDatasets ==
    UNION {{ScaleFrame(v, x) : x \in {y \in Indexes : Len(y) = Len(v)}} : v \in Vectors}

ScaleLists == {<<"id", "ts">>, <<"ts">>}

\* -------------------------------------------------------------- state
VARIABLES
    lst,      \* the list object the caller holds and passes as excluded_colnames
    dflt,     \* the default list object of each function (the `= []` of its def)
    last,     \* the last finished call: its arguments and its outcome
    anchor,   \* the first successful call since the caller's list or frame changed
    own,      \* the list object of each thread
    thr       \* each thread's position in the function body and its locals

vars == <<lst, dflt, last, anchor, own, thr>>

Threads == {"t1", "t2"}

NoCall ==
    [kind |-> "none", op |-> "none", df |-> NoFrame, dfAfter |-> NoFrame, entry |-> <<>>,
     status |-> "none", final |-> <<>>, numeric |-> <<>>, scaled |-> NoFrame,
     out |-> NoFrame]

Finished(kind, op, df, entry, r) ==
    [kind |-> kind, op |-> op, df |-> df, dfAfter |-> df, entry |-> entry,
     status |-> r.status, final |-> r.final, numeric |-> r.numeric,
     scaled |-> r.scaled, out |-> r.out]

NoAnchor == [set |-> FALSE, again |-> FALSE, base |-> 0, list |-> <<>>, numeric |-> <<>>]

Anchor(entry, r) ==
    IF r.status = "ok"
    THEN [set |-> TRUE, again |-> FALSE, base |-> Len(entry), list |-> r.final,
          numeric |-> r.numeric]
    ELSE NoAnchor

Idle == [pc |-> "idle", op |-> "none", df |-> NoFrame, entry |-> <<>>,
         numeric_colnames |-> <<>>, df_numeric |-> NoFrame, df_ids_labels |-> NoFrame,
         scaled |-> NoFrame, status |-> "none", out |-> NoFrame]

Init ==
    /\ lst = <<>>
    /\ dflt = [op \in Ops |-> <<>>]
    /\ last = NoCall
    /\ anchor = NoAnchor
    /\ own = [t \in Threads |-> <<>>]
    /\ thr = [t \in Threads |-> Idle]

\* ------------------------------------------------- sequential callers
\* op(df, l) with a list l the caller has just built
CallFresh(op, df, l) ==
    LET r == Run(op, df, l)
    IN  /\ last.kind = "none"
        /\ lst' = r.final
        /\ last' = Finished("list", op, df, l, r)
        /\ anchor' = Anchor(l, r)
        /\ UNCHANGED <<dflt, own, thr>>

\* op(df, lst): the caller calls again, with the frame and the list object
\* of its previous call
CallAgain(op) ==
    LET r == Run(op, last.df, lst)
    IN  /\ last.kind = "list"
        /\ lst' = r.final
        /\ last' = Finished("list", op, last.df, lst, r)
        /\ anchor' = IF anchor.set THEN [anchor EXCEPT !.again = TRUE] ELSE Anchor(lst, r)
        /\ UNCHANGED <<dflt, own, thr>>

\* op(df): excluded_colnames is the function's default list object
CallOmitted(op, df) ==
    LET r == Run(op, df, dflt[op])
    IN  /\ dflt' = [dflt EXCEPT ![op] = r.final]
        /\ last' = Finished("omitted", op, df, dflt[op], r)
        /\ UNCHANGED <<lst, anchor, own, thr>>

\* the caller drops the result and its list
Forget ==
    /\ last.kind = "list"
    /\ lst' = <<>>
    /\ last' = NoCall
    /\ anchor' = NoAnchor
    /\ UNCHANGED <<dflt, own, thr>>

Next ==
    \/ /\ last.kind = "none"
       /\ \E op \in Ops, df \in Datasets, l \in Lists : CallFresh(op, df, l)
    \/ \E op \in Ops : CallAgain(op)
    \/ Forget

Spec == Init /\ [][Next]_vars

DefaultDatasets ==
    {d \in Datasets : Len(d.cols) <= 2 /\ Range(d.cols) \subseteq {"ts", "label", "feat1"}}

NextDefault ==
    \E op \in Ops, df \in DefaultDatasets : CallOmitted(op, df)

SpecDefault == Init /\ [][NextDefault]_vars

NextRows ==
    \/ /\ last.kind = "none"
       /\ \E op \in Ops, df \in RowDatasets, l \in RowLists : CallFresh(op, df, l)
    \/ \E op \in Ops : CallAgain(op)
    \/ Forget

SpecRows == Init /\ [][NextRows]_vars

NextScale ==
    \/ /\ last.kind = "none"
       /\ \E op \in Ops, df \in ScaleDatasets, l \in ScaleLists : CallFresh(op, df, l)
    \/ Forget

SpecScale == Init /\ [][NextScale]_vars

\* ------------------------------------------------- concurrent callers
\* Each thread runs one call at a time, a line of the body per step; the
\* threads' steps interleave freely.  The list a call works on is the object
\* its caller passed: here each thread's own.
ListRefShared(t) == "t1"

ListRef(t) == t

ConcDatasets ==
    {d \in Datasets : d.cols \in {<<"ts", "feat1">>, <<"id", "label", "feat1">>, <<"label">>}}

ConcLists == {<<>>, <<"id">>}

\* the call: the thread builds its list l and enters op(df, l)
Begin(t, op, df, l) ==
    /\ thr[t].pc = "idle"
    /\ own' = [own EXCEPT ![t] = l]
    /\ thr' = [thr EXCEPT ![t] = [Idle EXCEPT !.pc = "l36", !.op = op, !.df = df,
                                               !.entry = l]]
    /\ UNCHANGED <<lst, dflt, last, anchor>>

\* line 36 (resp. 83, 132, 177)
Line36(t) ==
    /\ thr[t].pc = "l36"
    /\ thr' = [thr EXCEPT ![t].pc = "l38",
                          ![t].numeric_colnames = NumericColnames(thr[t].df, own[ListRef(t)])]
    /\ UNCHANGED <<lst, dflt, last, anchor, own>>

\* line 38
Line38(t) ==
    /\ thr[t].pc = "l38"
    /\ thr' = [thr EXCEPT ![t].pc = "l39",
                          ![t].df_numeric = DfNumeric(thr[t].df, thr[t].numeric_colnames)]
    /\ UNCHANGED <<lst, dflt, last, anchor, own>>

\* line 39: the list is extended in place
Line39(t) ==
    /\ thr[t].pc = "l39"
    /\ own' = [own EXCEPT ![ListRef(t)] =
                  Extended(thr[t].df, thr[t].numeric_colnames, own[ListRef(t)])]
    /\ thr' = [thr EXCEPT ![t].pc = "l40"]
    /\ UNCHANGED <<lst, dflt, last, anchor>>

\* line 40: df[excluded_colnames], a KeyError when a name is no column
Line40(t) ==
    /\ thr[t].pc = "l40"
    /\ thr' = IF HasColumns(thr[t].df, own[ListRef(t)])
              THEN [thr EXCEPT ![t].pc = "l44",
                               ![t].df_ids_labels = Take(thr[t].df, own[ListRef(t)])]
              ELSE [thr EXCEPT ![t].pc = "done", ![t].status = "KeyError"]
    /\ UNCHANGED <<lst, dflt, last, anchor, own>>

\* lines 43-45
Line44(t) ==
    /\ thr[t].pc = "l44"
    /\ thr' = IF ScalerAccepts(thr[t].df_numeric)
              THEN [thr EXCEPT ![t].pc = "l52",
                               ![t].scaled = Transformed(thr[t].op, thr[t].df_numeric)]
              ELSE [thr EXCEPT ![t].pc = "done", ![t].status = "ValueError"]
    /\ UNCHANGED <<lst, dflt, last, anchor, own>>

\* lines 48-54: the two reset_index results are dropped; join; return
Line52(t) ==
    /\ thr[t].pc = "l52"
    /\ thr' = [thr EXCEPT ![t].pc = "done", ![t].status = "ok",
                          ![t].out = Join(thr[t].df_ids_labels, thr[t].scaled)]
    /\ UNCHANGED <<lst, dflt, last, anchor, own>>

\* the caller takes the result (or the exception) and drops its list
Return(t) ==
    /\ thr[t].pc = "done"
    /\ thr' = [thr EXCEPT ![t] = Idle]
    /\ own' = [own EXCEPT ![t] = <<>>]
    /\ UNCHANGED <<lst, dflt, last, anchor>>

NextConc ==
    \E t \in Threads :
        \/ \E op \in Ops, df \in ConcDatasets, l \in ConcLists : Begin(t, op, df, l)
        \/ Line36(t)
        \/ Line38(t)
        \/ Line39(t)
        \/ Line40(t)
        \/ Line44(t)
        \/ Line52(t)
        \/ Return(t)

SpecConc == Init /\ [][NextConc]_vars

\* ------------------------------------------------------------- claims
\* what the claims speak of, stated on the frame and the list, not through
\* the function body
DtypeOf(df, c) == df.dtype[Pos(df.cols, c)]

NonNumericNotIn(df, l) ==
    SelectSeq(df.cols, LAMBDA c : ~InSeq(c, l) /\ DtypeOf(df, c) # "number")

NumericNotIn(df, l) ==
    SelectSeq(df.cols, LAMBDA c : ~InSeq(c, l) /\ DtypeOf(df, c) = "number")

Count(s, x) == Cardinality({k \in 1..Len(s) : s[k] = x})

\* the cells of the excluded block of the result are those of the input, row by row
ExcludedUnchanged ==
    /\ NRows(last.out) = NRows(last.df)
    /\ \A k \in 1..Len(last.final) :
          /\ last.out.cols[k] = last.final[k]
          /\ \A i \in 1..NRows(last.df) :
                last.out.val[k][i] = last.df.val[Pos(last.df.cols, last.final[k])][i]

\* C1: in the result of a successful call of any of the four operations, every
\* column of the excluded block (named by the caller, numeric or not, or
\* non-numeric and found by the call) holds in row i the value of input row i.
C1_ExcludedPassThrough ==
    last.status = "ok" => ExcludedUnchanged

C1_Witness ==
    /\ last.status = "ok"
    /\ NRows(last.df) >= 2
    /\ last.df.idx # RangeIndex(NRows(last.df))
    /\ \E c \in Range(last.entry) : DtypeOf(last.df, c) = "number"
    /\ Len(last.final) > Len(last.entry)

\* C2: the result recombines the two blocks by row position: as many rows as
\* the input, in its order, row i holding the excluded values of input row i
\* and the transformed numeric values of input row i, none missing.
C2_JoinedByRowPosition ==
    last.status = "ok" =>
        /\ ExcludedUnchanged
        /\ \A k \in 1..Len(last.numeric) : \A i \in 1..NRows(last.df) :
              /\ last.out.val[Len(last.final) + k][i] = last.scaled.val[k][i]
              /\ last.out.val[Len(last.final) + k][i] # NaN

\* C3: a call that omits excluded_colnames starts with an empty excluded set,
\* whatever calls came before, so its outcome depends on its frame alone.
C3_OmittedStartsEmpty ==
    last.kind = "omitted" =>
        /\ last.entry = <<>>
        /\ last.status = Run(last.op, last.df, <<>>).status
        /\ last.out = Run(last.op, last.df, <<>>).out

\* C4: after a successful call with the caller's list L, the list is L followed
\* by the non-numeric columns of the frame that were not in L, in the frame's
\* column order; nothing numeric is appended, nothing of L removed or moved.
C4_ListExtended ==
    (last.kind = "list" /\ last.status = "ok") =>
        lst = last.entry \o NonNumericNotIn(last.df, last.entry)

C4_Witness ==
    /\ last.kind = "list" /\ last.status = "ok"
    /\ Len(last.entry) > 0
    /\ Len(lst) > Len(last.entry)
    /\ last.df.cols[1] \notin Range(last.entry)
    /\ NumericNotIn(last.df, last.entry) # <<>>

\* C5 as stated: the output columns are the input columns, each exactly once,
\* ordered: the list as given, the appended non-numeric columns, the numeric
\* columns in frame order.
C5_ColumnsOnceInOrder ==
    last.status = "ok" =>
        /\ last.out.cols = last.entry \o NonNumericNotIn(last.df, last.entry)
                                      \o NumericNotIn(last.df, last.entry)
        /\ Range(last.out.cols) = Range(last.df.cols)
        /\ \A c \in Range(last.df.cols) : Count(last.out.cols, c) = 1

\* C5, amended: the order and the column set are as stated; a column appears
\* once unless the list at entry names it several times, and then it appears
\* as often as the list names it.
C5_ColumnsInOrder ==
    last.status = "ok" =>
        /\ last.out.cols = last.entry \o NonNumericNotIn(last.df, last.entry)
                                      \o NumericNotIn(last.df, last.entry)
        /\ Range(last.out.cols) = Range(last.df.cols)
        /\ \A c \in Range(last.df.cols) :
              Count(last.out.cols, c) =
                  IF InSeq(c, last.entry) THEN Count(last.entry, c) ELSE 1
        /\ IsDistinct(last.entry) =>
              \A c \in Range(last.df.cols) : Count(last.out.cols, c) = 1

C5_Witness ==
    /\ last.status = "ok"
    /\ IsDistinct(last.entry) /\ Len(last.entry) > 0
    /\ NonNumericNotIn(last.df, last.entry) # <<>>
    /\ last.out.cols # last.df.cols
    /\ Len(last.out.cols) = MaxCols

\* C8 as stated: no error when the numeric block is empty, nor when the list
\* names an existing column more than once.
C8_NoErrorOnDegenerate ==
    (/\ last.kind # "none"
     /\ HasColumns(last.df, last.entry)
     /\ (last.numeric = <<>> \/ ~IsDistinct(last.entry))) => last.status = "ok"

\* C8, amended: with every listed name in the frame, a list naming a column more
\* than once raises nothing; the call succeeds exactly when a numeric column is
\* left, and an empty numeric block ends the call with the scaler's ValueError
\* and no result.
C8_ErrorOnlyOnEmptyBlock ==
    (last.kind # "none" /\ HasColumns(last.df, last.entry)) =>
        /\ last.status = "ok" <=> NumericNotIn(last.df, last.entry) # <<>>
        /\ NumericNotIn(last.df, last.entry) = <<>> =>
              (last.status = "ValueError" /\ last.out = NoFrame)

C8_Witness ==
    /\ last.status = "ok"
    /\ ~IsDistinct(last.entry)
    /\ Count(last.out.cols, last.entry[1]) = 2

\* C9: a call whose list names a column the frame lacks fails with no result,
\* yet the list has by then been extended with the frame's non-numeric columns
\* that were not excluded, and stays so; the frame itself is unchanged.
C9_FailureKeepsExtension ==
    (last.kind = "list" /\ ~HasColumns(last.df, last.entry)) =>
        /\ last.status = "KeyError"
        /\ last.out = NoFrame
        /\ lst = last.entry \o NonNumericNotIn(last.df, last.entry)
        /\ last.dfAfter = last.df

C9_Witness ==
    /\ last.kind = "list" /\ last.status = "KeyError"
    /\ Len(lst) > Len(last.entry)

\* C10: once a call with list L on frame D has succeeded, every further call of
\* any of the operations with the same L and D succeeds, leaves L as that first
\* call left it (so no longer than it was plus the non-numeric columns of D)
\* and scales the same columns.
C10_RepeatLeavesList ==
    anchor.set =>
        /\ lst = anchor.list
        /\ last.status = "ok"
        /\ last.final = anchor.list
        /\ anchor.again => last.entry = anchor.list
        /\ last.numeric = anchor.numeric
        /\ Len(lst) <= anchor.base
               + Cardinality({c \in Range(last.df.cols) : DtypeOf(last.df, c) # "number"})

C10_Witness ==
    /\ anchor.set /\ anchor.again
    /\ Len(anchor.list) > anchor.base
    /\ anchor.numeric # <<>>

C7_ThreadsIndependent ==
    \A t \in Threads :
        thr[t].pc = "done" =>
            LET r == Run(thr[t].op, thr[t].df, thr[t].entry)
            IN  /\ thr[t].status = r.status
                /\ thr[t].out = r.out
                /\ own[t] = r.final

C7_Witness ==
    /\ thr["t1"].pc = "done" /\ thr["t1"].status = "ok"
    /\ Len(own["t1"]) > Len(thr["t1"].entry)
    /\ thr["t2"].pc = "l40"
    /\ Len(own["t2"]) > Len(thr["t2"].entry)
    /\ own["t1"] # own["t2"]

====
